---------------------------- MODULE Spec2Model ----------------------------
(***************************************************************************)
(* Model of elevation-profiler/ElevationProfileGenerator.js.               *)
(*                                                                         *)
(* Units.  Distances along the line are exact rationals.  The unit is the  *)
(* decimetre (the granularity of the automatic minimum spacing), and the   *)
(* distances a plan holds are numerators over the common denominator       *)
(* numberOfPoints - 1, so that lineStringLength / (numberOfPoints - 1) is  *)
(* represented without rounding.  Elevations are in decimetres too.        *)
(* Pixel coordinates are the integers SphericalMercator.px returns.        *)
(*                                                                         *)
(* A JavaScript value that may be null/undefined is a sequence of length   *)
(* at most one: <<>> is null, <<v>> is the value v.                        *)
(***************************************************************************)
EXTENDS Integers, Sequences, FiniteSets, TLC

Null == <<>>
Some(v) == <<v>>

(* ---- bounds of the explored inputs ---- *)
MaxLen == 12
MaxPoints == 5
MaxMin == 4
MaxTileX == 1

(* ---- program constants ---- *)
ZOOM_LEVEL == 15
TILE_SIZE == 256

VARIABLES
    requiredTilesObjects,   \* module-level list of tile descriptors (line 9)
    tilePromises,           \* module-level list of the promises pushed by _getTerrainTilePixelArray (line 10)
    minKmBetweenPoints,     \* module-level minimum spacing (line 11), Null or Some(decimetres)
    args,                   \* per invocation: Null before the call, Some(arguments) after
    pointsToCheck,          \* per invocation: the local pointsToCheck of line 52
    request,                \* per invocation: state of each promise of _getPromisifiedTileRequest
    tileP,                  \* per invocation: state of each promise pushed on tilePromises
    allP,                   \* per invocation: state of Promise.all(tilePromises)
    returned,               \* per invocation: the promise returned to the caller
    obs,                    \* per invocation: what was run (history, not program state)
    planIn,                 \* planner specification: the arguments under test
    planOut,                \* planner specification: the returned distances
    planPc                  \* planner specification: position

planVars == <<planIn, planOut, planPc>>
moduleVars == <<requiredTilesObjects, tilePromises, minKmBetweenPoints>>
callVars == <<args, pointsToCheck, request, tileP, allP, returned, obs>>
vars == <<requiredTilesObjects, tilePromises, minKmBetweenPoints,
          args, pointsToCheck, request, tileP, allP, returned, obs,
          planIn, planOut, planPc>>

\* The invocations of getLineStringElevationPoints that are followed.
Calls == {1, 2}

NothingObserved ==
    [resolveCalls |-> 0, rejectCalls |-> 0, decodeRuns |-> 0, formatRuns |-> 0,
     lookups |-> <<>>, wrote |-> <<>>, overlap |-> FALSE]

(***************************************************************************)
(* Minimum spacing                                                         *)
(***************************************************************************)
Latitudes == {0, 60, 85, 89}

\* EQUATORIAL_EARTH_CIRCUMFERENCE * cos(latitude) / 2^(ZOOM_LEVEL + 8), in
\* micrometres, tabulated for the latitudes explored.
getPixelDistanceAtLatitudeInMicrometers(latitude) ==
    CASE latitude = 0  -> 4777314
      [] latitude = 60 -> 2388657
      [] latitude = 85 -> 416370
      [] latitude = 89 -> 83375

\* Math.ceil(a / b) for a >= 0, b > 0
Ceil(a, b) == (a + b - 1) \div b

\* The three values of the parameter minMetersBetweenPoints.
MinUndefined == [kind |-> "undefined", meters |-> 0]
MinNull == [kind |-> "null", meters |-> 0]
MinNumber(dm) == [kind |-> "number", meters |-> dm]

\* lines 44-50: the value assigned to minKmBetweenPoints
ResolveMinKmBetweenPoints(minMetersBetweenPoints, latitude) ==
    IF minMetersBetweenPoints.kind = "undefined"
    THEN Some(Ceil(getPixelDistanceAtLatitudeInMicrometers(latitude) * 10, 1000000))
    ELSE IF minMetersBetweenPoints.kind = "null"
         THEN Null
         ELSE Some(minMetersBetweenPoints.meters)

(***************************************************************************)
(* Sample planner                                                          *)
(***************************************************************************)
\* A planner that forgets the minimum spacing.
StepDistanceIgnoringMinimum(lineStringLength, numberOfPoints, minKm) ==
    lineStringLength

\* lines 76-79: stepDistance, as a numerator over numberOfPoints - 1
\* (lineStringLength / (numberOfPoints - 1) < minKm  iff
\*  lineStringLength < minKm * (numberOfPoints - 1), the divisor being positive)
StepDistance(lineStringLength, numberOfPoints, minKm) ==
    IF minKm # Null /\ lineStringLength < minKm[1] * (numberOfPoints - 1)
    THEN minKm[1] * (numberOfPoints - 1)
    ELSE lineStringLength

\* A loop that only counts, without comparing against the length.
LoopConditionCountOnly(stepDistance, lineStringLength, numberOfPoints, i) ==
    i < numberOfPoints - 1

\* line 82: the condition of the for loop
LoopCondition(stepDistance, lineStringLength, numberOfPoints, i) ==
    (i < numberOfPoints - 1) /\ (stepDistance * i < lineStringLength * (numberOfPoints - 1))

\* lines 82-84: the for loop, from index i on
RECURSIVE LoopDistances(_, _, _, _)
LoopDistances(stepDistance, lineStringLength, numberOfPoints, i) ==
    IF LoopCondition(stepDistance, lineStringLength, numberOfPoints, i)
    THEN <<stepDistance * i>> \o LoopDistances(stepDistance, lineStringLength, numberOfPoints, i + 1)
    ELSE <<>>

\* line 85: the endpoint pushed after the loop
EndpointDistance(lineStringLength, numberOfPoints) ==
    <<lineStringLength * (numberOfPoints - 1)>>

\* lines 74-88
getLineStringDistancesToCheck(lineStringLength, numberOfPoints, minKm) ==
    LoopDistances(StepDistance(lineStringLength, numberOfPoints, minKm),
                  lineStringLength, numberOfPoints, 0)
        \o EndpointDistance(lineStringLength, numberOfPoints)

(***************************************************************************)
(* Planner specification: the arguments are drawn from bounded sets, the   *)
(* minimum is resolved as lines 44-50 do, then the planner is applied.     *)
(***************************************************************************)
MinPolicies == {MinUndefined, MinNull} \cup {MinNumber(m) : m \in 1..MaxMin}

PlanInputs ==
    [lineStringLength : 0..MaxLen, numberOfPoints : 2..MaxPoints,
     minMetersBetweenPoints : MinPolicies, latitude : Latitudes]

PlanInit ==
    /\ requiredTilesObjects = <<>>
    /\ tilePromises = <<>>
    /\ minKmBetweenPoints = Null
    /\ args = [c \in Calls |-> Null]
    /\ pointsToCheck = [c \in Calls |-> <<>>]
    /\ request = [c \in Calls |-> <<>>]
    /\ tileP = [c \in Calls |-> <<>>]
    /\ allP = [c \in Calls |-> "none"]
    /\ returned = [c \in Calls |-> [state |-> "none", value |-> Null]]
    /\ obs = [c \in Calls |-> NothingObserved]
    /\ planIn \in {in \in PlanInputs :
                      in.minMetersBetweenPoints.kind # "undefined" => in.latitude = 0}
    /\ planOut = <<>>
    /\ planPc = "entry"

PlanResolveMinimum ==
    /\ planPc = "entry"
    /\ minKmBetweenPoints' = ResolveMinKmBetweenPoints(planIn.minMetersBetweenPoints, planIn.latitude)
    /\ planPc' = "plan"
    /\ UNCHANGED <<requiredTilesObjects, tilePromises, callVars, planIn, planOut>>

PlanDistances ==
    /\ planPc = "plan"
    /\ planOut' = getLineStringDistancesToCheck(planIn.lineStringLength, planIn.numberOfPoints,
                                                minKmBetweenPoints)
    /\ planPc' = "done"
    /\ UNCHANGED <<requiredTilesObjects, tilePromises, minKmBetweenPoints, callVars, planIn>>

PlanNext == PlanResolveMinimum \/ PlanDistances

SpecPlan == PlanInit /\ [][PlanNext]_vars

(***************************************************************************)
(* Tiles, pixel grids and decoding                                         *)
(***************************************************************************)
\* The tiles TileCover.tiles may report: a row of tiles at ZOOM_LEVEL.
Tiles == {[x |-> tx, y |-> 0, z |-> ZOOM_LEVEL] : tx \in 0..MaxTileX}

\* The results of TileCover.tiles that are explored: every list of distinct
\* tiles, the empty list included.
Covers ==
    {s \in UNION {[1..k -> Tiles] : k \in 0..Cardinality(Tiles)} :
        \A i, j \in DOMAIN s : i # j => s[i] # s[j]}

\* The pixel coordinates SphericalMercator.px may give a sample point: inside
\* tile 0, on the edge shared by tiles 0 and 1, inside tile 1, and on the
\* bottom edge of the row of tiles.
PxChoices ==
    {[x |-> 10, y |-> 10], [x |-> TILE_SIZE, y |-> 10],
     [x |-> TILE_SIZE + 44, y |-> 10], [x |-> 10, y |-> TILE_SIZE]}

\* lines 120-131: the descriptor pushed for a required tile.  The field run
\* is history: the invocation that pushed the descriptor.
TileDescriptor(requiredTile, c) ==
    [coordinates |-> requiredTile,
     smCoordinates |-> [x |-> requiredTile.x * TILE_SIZE, y |-> requiredTile.y * TILE_SIZE],
     tileData |-> Null,
     run |-> c]

\* The pixel grid getPixels delivers for the tile (x, y, z): it is identified
\* by the tile it was fetched for.
TerrainGrid(tile) == tile

\* tileData.get(col, row, channel) of a TILE_SIZE x TILE_SIZE grid: a channel
\* value in 0..255 inside the grid, undefined (Null) outside of it.
PixelGet(grid, col, row, channel) ==
    IF col \in 0..(TILE_SIZE - 1) /\ row \in 0..(TILE_SIZE - 1)
    THEN Some(CASE channel = 0 -> 1
                [] channel = 1 -> (grid.x * 16 + grid.y) % 256
                [] channel = 2 -> (col + row) % 256)
    ELSE Null

\* Values of the property elevation of a point: absent, a number, NaN.
Absent == <<>>
Number(v) == <<v>>
NaN == <<0, 0>>

\* lines 168-173, in decimetres; arithmetic on undefined gives NaN
calculateHeightFromPixel(pixelRGBArray) ==
    IF \E k \in 1..3 : pixelRGBArray[k] = Null
    THEN NaN
    ELSE Number(-100000 + (pixelRGBArray[1][1] * 256 * 256
                           + pixelRGBArray[2][1] * 256 + pixelRGBArray[3][1]))

\* A containment test that is half-open on the far edges.
pointIsWithinTileHalfOpen(pointSMCoordinates, tileSMCoordinates) ==
    /\ pointSMCoordinates.x >= tileSMCoordinates.x
    /\ pointSMCoordinates.x < (tileSMCoordinates.x + TILE_SIZE)
    /\ pointSMCoordinates.y >= tileSMCoordinates.y
    /\ pointSMCoordinates.y < (tileSMCoordinates.y + TILE_SIZE)

\* lines 175-180
pointIsWithinTile(pointSMCoordinates, tileSMCoordinates) ==
    /\ pointSMCoordinates.x >= tileSMCoordinates.x
    /\ pointSMCoordinates.x <= (tileSMCoordinates.x + TILE_SIZE)
    /\ pointSMCoordinates.y >= tileSMCoordinates.y
    /\ pointSMCoordinates.y <= (tileSMCoordinates.y + TILE_SIZE)

Min(S) == CHOOSE m \in S : \A n \in S : m <= n

\* A lookup that falls back on the first tile of the list when none matches.
MatchingTileOrFirst(point, tiles) ==
    LET matching == {i \in DOMAIN tiles :
                        pointIsWithinTile(point.smCoordinates, tiles[i].smCoordinates)}
    IN  IF matching # {} THEN Min(matching) ELSE IF tiles # <<>> THEN 1 ELSE 0

\* lines 155-157: the index of the first tile of the list that contains the
\* point; 0 when filter(...)[0] is undefined
MatchingTile(point, tiles) ==
    LET matching == {i \in DOMAIN tiles :
                        pointIsWithinTile(point.smCoordinates, tiles[i].smCoordinates)}
    IN  IF matching # {} THEN Min(matching) ELSE 0

\* lines 158-159: the indices passed to tileData.get
RelativeToTile(point, tile) ==
    [x |-> point.smCoordinates.x - tile.smCoordinates.x,
     y |-> point.smCoordinates.y - tile.smCoordinates.y]

\* lines 158-164 throw a TypeError for this point: matchingTile is undefined
\* (line 158) or its tileData is null (line 161)
PointThrows(point, tiles) ==
    \/ MatchingTile(point, tiles) = 0
    \/ tiles[MatchingTile(point, tiles)].tileData = Null

\* lines 158-164 for a point that does not throw
PointWithHeight(point, tiles) ==
    LET tile == tiles[MatchingTile(point, tiles)]
        rel == RelativeToTile(point, tile)
    IN  [point EXCEPT !.elevation =
            calculateHeightFromPixel(<<PixelGet(tile.tileData[1], rel.x, rel.y, 0),
                                       PixelGet(tile.tileData[1], rel.x, rel.y, 1),
                                       PixelGet(tile.tileData[1], rel.x, rel.y, 2)>>)]

\* lines 153-166: points.forEach stops at the first point that throws; the
\* points before it have been given their elevation.  lookups lists the
\* indices passed to tileData.get, point by point.
addHeightToPointsGeoJSON(points, tiles) ==
    LET throwing == {k \in DOMAIN points : PointThrows(points[k], tiles)}
        done == IF throwing = {} THEN Len(points) ELSE Min(throwing) - 1
    IN  [threw |-> throwing # {},
         points |-> [k \in DOMAIN points |->
                        IF k <= done THEN PointWithHeight(points[k], tiles) ELSE points[k]],
         lookups |-> [k \in 1..done |->
                        RelativeToTile(points[k], tiles[MatchingTile(points[k], tiles)])]]

\* lines 182-195: the features, without smCoordinates
getFormattedPointsResult(points) ==
    [k \in DOMAIN points |->
        [distanceAlongLine |-> points[k].distanceAlongLine,
         elevation |-> points[k].elevation]]

\* lines 90-98 and 100-112: the points for the planned distances, with the
\* pixel coordinates the projection gives them
getPointsToCheck(distancesToCheck, px) ==
    [k \in DOMAIN distancesToCheck |->
        [distanceAlongLine |-> distancesToCheck[k],
         smCoordinates |-> px[k],
         elevation |-> Absent]]

(***************************************************************************)
(* Promises                                                                *)
(***************************************************************************)
\* A combinator that waits for every promise and ignores rejections.
PromiseAllSettledState(promises) ==
    IF \A i \in DOMAIN promises : promises[i] # "pending" THEN "resolved" ELSE "pending"

\* A combinator that resolves with the first promise resolved.
PromiseAnyState(promises) ==
    IF \E i \in DOMAIN promises : promises[i] = "rejected" THEN "rejected"
    ELSE IF promises = <<>> \/ \E i \in DOMAIN promises : promises[i] = "resolved"
         THEN "resolved" ELSE "pending"

\* line 56: Promise.all is rejected as soon as one promise is rejected and
\* resolved once all are resolved
PromiseAllState(promises) ==
    IF \E i \in DOMAIN promises : promises[i] = "rejected" THEN "rejected"
    ELSE IF \A i \in DOMAIN promises : promises[i] = "resolved" THEN "resolved"
         ELSE "pending"

\* A callback that reads the index after the loop has ended.
SlotOfLastTile(requiredTilesObjectsIndex) == Len(requiredTilesObjects)

\* line 138: the slot requiredTilesObjects[requiredTilesObjectsIndex]; the
\* forEach index of line 116 is 0-based, the lists here are 1-based
SlotOf(requiredTilesObjectsIndex) == requiredTilesObjectsIndex

(***************************************************************************)
(* Arguments of an invocation, with what the collaborators return for them *)
(***************************************************************************)
PipeLengths == {0, 2}
PipePoints == {2, 3}
PipePolicies == {MinNull, MinNumber(2), MinUndefined}

DistancesFor(lineStringLength, numberOfPoints, minMetersBetweenPoints) ==
    getLineStringDistancesToCheck(lineStringLength, numberOfPoints,
                                  ResolveMinKmBetweenPoints(minMetersBetweenPoints, 0))

\* A LineString with coordinates: its length (length), the tiles covering it
\* (TileCover.tiles) and the pixel coordinates of its sampled points (along,
\* SphericalMercator.px).
WellFormedInputs ==
    UNION {
        [lineStringLength : {l}, numberOfPoints : {n}, minMetersBetweenPoints : {m},
         latitude : {0}, hasCoordinates : {TRUE}, cover : Covers,
         px : [1..Len(DistancesFor(l, n, m)) -> PxChoices]]
        : l \in PipeLengths, n \in PipePoints, m \in PipePolicies}

\* A LineString without coordinates, called with the default minimum:
\* line 45 throws a TypeError on coordinates[0][1].
EmptyInputs ==
    [lineStringLength : {0}, numberOfPoints : PipePoints, minMetersBetweenPoints : {MinUndefined},
     latitude : {0}, hasCoordinates : {FALSE}, cover : {<<>>}, px : {<<>>}]

Inputs == WellFormedInputs \cup EmptyInputs

\* The arguments explored for two overlapping invocations.
OverlapInputs ==
    {in \in WellFormedInputs :
        /\ in.numberOfPoints = 2
        /\ in.minMetersBetweenPoints = MinNull
        /\ \A k \in DOMAIN in.px : in.px[k].y = 10 /\ in.px[k].x # TILE_SIZE}

(***************************************************************************)
(* getLineStringElevationPoints                                            *)
(***************************************************************************)
Init ==
    /\ requiredTilesObjects = <<>>
    /\ tilePromises = <<>>
    /\ minKmBetweenPoints = Null
    /\ args = [c \in Calls |-> Null]
    /\ pointsToCheck = [c \in Calls |-> <<>>]
    /\ request = [c \in Calls |-> <<>>]
    /\ tileP = [c \in Calls |-> <<>>]
    /\ allP = [c \in Calls |-> "none"]
    /\ returned = [c \in Calls |-> [state |-> "none", value |-> Null]]
    /\ obs = [c \in Calls |-> NothingObserved]
    /\ planIn = [lineStringLength |-> 0, numberOfPoints |-> 2,
                 minMetersBetweenPoints |-> MinNull, latitude |-> 0]
    /\ planOut = <<>>
    /\ planPc = "unused"

\* Some fetch of some invocation has not called back yet.
FetchOutstanding ==
    \E d \in Calls : \E i \in DOMAIN request[d] : request[d][i] = "pending"

\* lines 40-65, the synchronous part of the call: the executor of the
\* returned promise.  Invocation 2 is made after invocation 1.
Start(c, in) ==
    /\ args[c] = Null
    /\ \A d \in Calls : d < c => args[d] # Null
    /\ args' = [args EXCEPT ![c] = Some(in)]
    /\ IF in.minMetersBetweenPoints.kind = "undefined" /\ ~in.hasCoordinates
       THEN \* lines 42-43, then line 45 throws and line 63 rejects
            /\ requiredTilesObjects' = <<>>
            /\ tilePromises' = <<>>
            /\ returned' = [returned EXCEPT ![c] = [state |-> "rejected", value |-> Null]]
            /\ obs' = [obs EXCEPT ![c].rejectCalls = @ + 1]
            /\ UNCHANGED <<minKmBetweenPoints, pointsToCheck, request, tileP, allP>>
       ELSE LET minKm == ResolveMinKmBetweenPoints(in.minMetersBetweenPoints, in.latitude)
                distancesToCheck ==
                    getLineStringDistancesToCheck(in.lineStringLength, in.numberOfPoints, minKm)
            IN  \* lines 44-50
                /\ minKmBetweenPoints' = minKm
                \* lines 52 and 54
                /\ pointsToCheck' = [pointsToCheck EXCEPT ![c] = getPointsToCheck(distancesToCheck, in.px)]
                \* line 53: one descriptor and one request per required tile
                /\ requiredTilesObjects' = [i \in DOMAIN in.cover |-> TileDescriptor(in.cover[i], c)]
                /\ tilePromises' = [i \in DOMAIN in.cover |-> <<c, i>>]
                /\ request' = [request EXCEPT ![c] = [i \in DOMAIN in.cover |-> "pending"]]
                /\ tileP' = [tileP EXCEPT ![c] = [i \in DOMAIN in.cover |-> "pending"]]
                /\ obs' = [obs EXCEPT ![c].wrote = [i \in DOMAIN in.cover |-> Null],
                                      ![c].overlap = FetchOutstanding]
                \* line 56: Promise.all over the promises just pushed
                /\ allP' = [allP EXCEPT ![c] = IF in.cover = <<>> THEN "resolved" ELSE "pending"]
                /\ returned' = [returned EXCEPT ![c] = [state |-> "pending", value |-> Null]]
    /\ UNCHANGED planVars

\* lines 144-149: getPixels calls back for request i of invocation c, with an
\* error or with the pixels
GetPixelsCallback(c, i, error) ==
    /\ i \in DOMAIN request[c]
    /\ request[c][i] = "pending"
    /\ request' = [request EXCEPT ![c][i] = IF error THEN "rejected" ELSE "resolved"]
    /\ UNCHANGED <<moduleVars, args, pointsToCheck, tileP, allP, returned, obs, planVars>>

\* lines 137-139: the reaction chained on request i.  A rejection passes
\* through; otherwise the callback stores the pixels in the module-level list,
\* and throws a TypeError when the list has no such slot.
TileThen(c, i) ==
    /\ i \in DOMAIN request[c]
    /\ request[c][i] # "pending"
    /\ tileP[c][i] = "pending"
    /\ IF request[c][i] = "rejected"
       THEN /\ tileP' = [tileP EXCEPT ![c][i] = "rejected"]
            /\ UNCHANGED <<requiredTilesObjects, obs>>
       ELSE IF SlotOf(i) \in DOMAIN requiredTilesObjects
            THEN /\ requiredTilesObjects' =
                        [requiredTilesObjects EXCEPT ![SlotOf(i)].tileData =
                            Some(TerrainGrid(args[c][1].cover[i]))]
                 /\ tileP' = [tileP EXCEPT ![c][i] = "resolved"]
                 /\ obs' = [obs EXCEPT ![c].wrote[i] =
                                Some([slot |-> SlotOf(i), run |-> requiredTilesObjects[SlotOf(i)].run])]
            ELSE /\ tileP' = [tileP EXCEPT ![c][i] = "rejected"]
                 /\ UNCHANGED <<requiredTilesObjects, obs>>
    /\ UNCHANGED <<tilePromises, minKmBetweenPoints, args, pointsToCheck, request, allP,
                   returned, planVars>>

\* line 56: Promise.all settles
PromiseAllSettles(c) ==
    /\ allP[c] = "pending"
    /\ PromiseAllState(tileP[c]) # "pending"
    /\ allP' = [allP EXCEPT ![c] = PromiseAllState(tileP[c])]
    /\ UNCHANGED <<moduleVars, args, pointsToCheck, request, tileP, returned, obs, planVars>>

\* lines 56-58: the reaction to Promise.all being resolved; when
\* _addHeightToPointsGeoJSON throws, the reaction of lines 59-61 rejects
ThenCallback(c) ==
    /\ allP[c] = "resolved"
    /\ returned[c].state = "pending"
    /\ LET r == addHeightToPointsGeoJSON(pointsToCheck[c], requiredTilesObjects)
       IN  /\ pointsToCheck' = [pointsToCheck EXCEPT ![c] = r.points]
           /\ IF r.threw
              THEN /\ returned' = [returned EXCEPT ![c] = [state |-> "rejected", value |-> Null]]
                   /\ obs' = [obs EXCEPT ![c].decodeRuns = @ + 1,
                                         ![c].lookups = r.lookups,
                                         ![c].rejectCalls = @ + 1]
              ELSE /\ returned' = [returned EXCEPT ![c] =
                                      [state |-> "resolved",
                                       value |-> Some(getFormattedPointsResult(r.points))]]
                   /\ obs' = [obs EXCEPT ![c].decodeRuns = @ + 1,
                                         ![c].lookups = r.lookups,
                                         ![c].formatRuns = @ + 1,
                                         ![c].resolveCalls = @ + 1]
    /\ UNCHANGED <<moduleVars, args, request, tileP, allP, planVars>>

\* lines 59-61: the reaction to Promise.all being rejected
CatchCallback(c) ==
    /\ allP[c] = "rejected"
    /\ returned[c].state = "pending"
    /\ returned' = [returned EXCEPT ![c] = [state |-> "rejected", value |-> Null]]
    /\ obs' = [obs EXCEPT ![c].rejectCalls = @ + 1]
    /\ UNCHANGED <<moduleVars, args, pointsToCheck, request, tileP, allP, planVars>>

Step(c) ==
    \/ \E i \in 1..Cardinality(Tiles), error \in BOOLEAN : GetPixelsCallback(c, i, error)
    \/ \E i \in 1..Cardinality(Tiles) : TileThen(c, i)
    \/ PromiseAllSettles(c)
    \/ ThenCallback(c)
    \/ CatchCallback(c)

\* One invocation.  (The arguments are only enumerated while the call has
\* not been made.)
Next ==
    \/ (args[1] = Null /\ \E in \in Inputs : Start(1, in))
    \/ Step(1)

Spec == Init /\ [][Next]_vars

\* Two invocations, the second possibly made while the first is in flight.
NextOverlap ==
    \/ \E c \in Calls : (args[c] = Null /\ \E in \in OverlapInputs : Start(c, in))
    \/ \E c \in Calls : Step(c)

SpecOverlap == Init /\ [][NextOverlap]_vars

(***************************************************************************)
(* Properties of the sample planner (checked under SpecPlan)               *)
(***************************************************************************)
PlanDone == planPc = "done"
PlanLength == planIn.lineStringLength * (planIn.numberOfPoints - 1)
PlanMinimum == minKmBetweenPoints[1] * (planIn.numberOfPoints - 1)

\* C2: the planned distances are a non-empty, non-decreasing list of values
\* between 0 and the length of the line, and the last one is the length.
C2_WellFormedPlan ==
    PlanDone =>
        /\ Len(planOut) >= 1
        /\ \A k \in 1..Len(planOut) : 0 <= planOut[k] /\ planOut[k] <= PlanLength
        /\ \A k \in 1..(Len(planOut) - 1) : planOut[k] <= planOut[k + 1]
        /\ planOut[Len(planOut)] = PlanLength

\* A plan whose step was raised to the minimum and whose loop stopped on the
\* length, leaving a last pair closer than the step.
C2_Witness ==
    /\ PlanDone
    /\ minKmBetweenPoints # Null
    /\ planIn.lineStringLength > 0
    /\ Len(planOut) >= 3
    /\ Len(planOut) < planIn.numberOfPoints
    /\ planOut[Len(planOut)] - planOut[Len(planOut) - 1] < PlanMinimum

\* C3 (as stated): without a minimum the plan has exactly numberOfPoints
\* distances, the k-th being k * length / (numberOfPoints - 1), the last the
\* length.
C3_ExactCountWithoutMinimum ==
    (PlanDone /\ planIn.minMetersBetweenPoints.kind = "null") =>
        /\ Len(planOut) = planIn.numberOfPoints
        /\ \A k \in 0..(planIn.numberOfPoints - 2) :
               planOut[k + 1] = k * planIn.lineStringLength
        /\ planOut[planIn.numberOfPoints] = PlanLength

\* C4: with a minimum spacing in effect, consecutive planned distances other
\* than the last pair are at least the minimum apart.
C4_MinimumSpacing ==
    (PlanDone /\ minKmBetweenPoints # Null) =>
        \A k \in 1..(Len(planOut) - 2) : planOut[k + 1] - planOut[k] >= PlanMinimum

\* A plan with a minimum in effect, a step that had to be raised to it, at
\* least two pairs, and a last pair closer than the minimum.
C4_Witness ==
    /\ PlanDone
    /\ minKmBetweenPoints # Null
    /\ planIn.lineStringLength < PlanMinimum
    /\ Len(planOut) >= 4
    /\ planOut[Len(planOut)] - planOut[Len(planOut) - 1] < PlanMinimum
    /\ planOut[2] - planOut[1] = PlanMinimum

(***************************************************************************)
(* Properties of one invocation (checked under Spec)                       *)
(***************************************************************************)
Started(c) == args[c] # Null
FetchFailed(c) == \E i \in DOMAIN request[c] : request[c][i] = "rejected"
AllFetched(c) == \A i \in DOMAIN request[c] : request[c][i] = "resolved"

\* C1: once the fetch of a tile has failed, the returned promise is never
\* resolved, the decoding and the formatting are never run, reject is called
\* at most once, and when nothing is left to run the promise is rejected,
\* reject having been called exactly once.
C1_FailFast ==
    \A c \in Calls :
        (Started(c) /\ FetchFailed(c)) =>
            /\ returned[c].state # "resolved"
            /\ returned[c].value = Null
            /\ obs[c].resolveCalls = 0
            /\ obs[c].decodeRuns = 0
            /\ obs[c].formatRuns = 0
            /\ obs[c].rejectCalls <= 1
            /\ (returned[c].state = "rejected") = (obs[c].rejectCalls = 1)
            /\ (~ENABLED Step(c)) => returned[c].state = "rejected"

\* Two tiles, one fetched and stored, the other failed; the promise is rejected.
C1_Witness ==
    /\ Started(1)
    /\ Len(request[1]) = 2
    /\ request[1][1] = "resolved" /\ tileP[1][1] = "resolved"
    /\ request[1][2] = "rejected"
    /\ returned[1].state = "rejected"
    /\ obs[1].rejectCalls = 1

\* C5 (as stated): an invocation on a line of length 0 never resolves with a
\* FeatureCollection and never uses a fetched tile.
C5_DegeneratePathIsError ==
    \A c \in Calls :
        (Started(c) /\ args[c][1].lineStringLength = 0) =>
            /\ returned[c].state # "resolved"
            /\ obs[c].lookups = <<>>

\* C6: whenever the decoding runs, every fetch of the invocation has been
\* issued and has completed, its result has been stored, and every tile
\* descriptor of the run has its tileData.
C6_FanInBeforeDecode ==
    [][\A c \in Calls :
          obs'[c].decodeRuns > obs[c].decodeRuns =>
              /\ Len(request[c]) = Len(args[c][1].cover)
              /\ Len(requiredTilesObjects) = Len(args[c][1].cover)
              /\ \A i \in DOMAIN request[c] :
                    request[c][i] = "resolved" /\ tileP[c][i] = "resolved"
              /\ \A i \in DOMAIN requiredTilesObjects :
                    requiredTilesObjects[i].tileData # Null]_vars

\* The decoding has run over two tiles, both holding their data.
C6_Witness ==
    /\ obs[1].decodeRuns = 1
    /\ Len(requiredTilesObjects) = 2
    /\ \A i \in 1..2 : requiredTilesObjects[i].tileData # Null
    /\ returned[1].state = "resolved"

\* What the fetches of invocation c have stored so far: fetch i in slot i,
\* a descriptor holding the grid of its own tile exactly when its fetch has
\* been stored.
SlotsOwned(c) ==
    /\ \A i \in DOMAIN obs[c].wrote :
          obs[c].wrote[i] # Null => obs[c].wrote[i][1].slot = i
    /\ \A i, j \in DOMAIN obs[c].wrote :
          (i # j /\ obs[c].wrote[i] # Null /\ obs[c].wrote[j] # Null)
              => obs[c].wrote[i][1].slot # obs[c].wrote[j][1].slot
    /\ \A i \in DOMAIN requiredTilesObjects :
          requiredTilesObjects[i].tileData =
              IF tileP[c][i] = "resolved"
              THEN Some(TerrainGrid(requiredTilesObjects[i].coordinates))
              ELSE Null

\* C7: in every step of one invocation, a tileData that changes goes from null
\* to the grid fetched for the descriptor's own tile, by the completion of the
\* fetch of the same position, at most one descriptor changes, a tileData that
\* is set never changes, and fetch i has written slot i only.
C7_SlotOwnership ==
    [][/\ Started(1)' => SlotsOwned(1)'
       /\ \A i \in DOMAIN requiredTilesObjects :
             /\ i \in DOMAIN requiredTilesObjects'
             /\ requiredTilesObjects[i].tileData # Null =>
                    requiredTilesObjects'[i].tileData = requiredTilesObjects[i].tileData
             /\ requiredTilesObjects'[i].tileData # requiredTilesObjects[i].tileData =>
                    /\ requiredTilesObjects[i].tileData = Null
                    /\ requiredTilesObjects'[i].tileData =
                           Some(TerrainGrid(requiredTilesObjects[i].coordinates))
                    /\ tileP[1][i] = "pending" /\ tileP'[1][i] = "resolved"
                    /\ \A j \in DOMAIN requiredTilesObjects :
                           j # i => requiredTilesObjects'[j] = requiredTilesObjects[j]]_vars

\* Two tiles, the second stored before the first is fetched.
C7_Witness ==
    /\ Started(1)
    /\ Len(requiredTilesObjects) = 2
    /\ requiredTilesObjects[1].tileData = Null
    /\ request[1][1] = "pending"
    /\ requiredTilesObjects[2].tileData = Some(TerrainGrid(args[1][1].cover[2]))
    /\ obs[1].wrote[2] = Some([slot |-> 2, run |-> 1])

\* Some sample point of invocation c lies in the inclusive box of no tile of
\* its cover.
UncoveredPoint(c) ==
    \E k \in DOMAIN args[c][1].px :
        \A i \in DOMAIN args[c][1].cover :
            LET origin == [x |-> args[c][1].cover[i].x * TILE_SIZE,
                           y |-> args[c][1].cover[i].y * TILE_SIZE]
                p == args[c][1].px[k]
            IN  ~(/\ origin.x <= p.x /\ p.x <= origin.x + TILE_SIZE
                  /\ origin.y <= p.y /\ p.y <= origin.y + TILE_SIZE)

\* C8: when a sample point lies in no tile of the run, the returned promise is
\* never resolved, no collection is produced, and once all fetches have
\* succeeded and the decoding has run the promise is rejected.
C8_CoverageMismatchIsFatal ==
    \A c \in Calls :
        (Started(c) /\ UncoveredPoint(c)) =>
            /\ returned[c].state # "resolved"
            /\ returned[c].value = Null
            /\ obs[c].formatRuns = 0
            /\ obs[c].decodeRuns > 0 => returned[c].state = "rejected"
            /\ (AllFetched(c) /\ ~ENABLED Step(c)) =>
                   (returned[c].state = "rejected" /\ obs[c].decodeRuns = 1)

\* All fetches succeeded, the first point was given an elevation, a later
\* point is in no tile, and the promise is rejected without a collection.
C8_Witness ==
    /\ Started(1)
    /\ Len(request[1]) >= 1
    /\ AllFetched(1)
    /\ UncoveredPoint(1)
    /\ obs[1].decodeRuns = 1
    /\ Len(pointsToCheck[1]) >= 2
    /\ pointsToCheck[1][1].elevation # Absent
    /\ returned[1] = [state |-> "rejected", value |-> Null]

\* C9 (as stated): the indices passed to the pixel grid are columns and rows
\* of the grid, in 0..TILE_SIZE - 1.
C9_PixelLookupInGrid ==
    \A c \in Calls :
        \A k \in DOMAIN obs[c].lookups :
            /\ obs[c].lookups[k].x \in 0..(TILE_SIZE - 1)
            /\ obs[c].lookups[k].y \in 0..(TILE_SIZE - 1)

(***************************************************************************)
(* Properties of two invocations (checked under SpecOverlap)               *)
(***************************************************************************)
\* The decoding of invocation c over its own tiles, all fetched.
AloneResult(c) ==
    LET in == args[c][1]
        distancesToCheck ==
            getLineStringDistancesToCheck(in.lineStringLength, in.numberOfPoints,
                ResolveMinKmBetweenPoints(in.minMetersBetweenPoints, in.latitude))
        ownTiles == [i \in DOMAIN in.cover |->
                        [TileDescriptor(in.cover[i], c) EXCEPT
                            !.tileData = Some(TerrainGrid(in.cover[i]))]]
    IN  addHeightToPointsGeoJSON(getPointsToCheck(distancesToCheck, in.px), ownTiles)

\* C10 (as stated): when an invocation starts while fetches of another are
\* outstanding, no descriptor of the tile list ever holds the grid of another
\* tile, every fetch result is stored in a descriptor of the invocation that
\* issued the fetch, at the position of the fetch, and each invocation settles
\* as it would have settled alone.
C10_Isolation ==
    (\E c \in Calls : obs[c].overlap) =>
        /\ \A i \in DOMAIN requiredTilesObjects :
              requiredTilesObjects[i].tileData # Null =>
                  requiredTilesObjects[i].tileData =
                      Some(TerrainGrid(requiredTilesObjects[i].coordinates))
        /\ \A c \in Calls :
              Started(c) =>
                  /\ \A i \in DOMAIN obs[c].wrote :
                        obs[c].wrote[i] # Null =>
                            obs[c].wrote[i][1] = [slot |-> i, run |-> c]
                  /\ returned[c].state = "resolved" =>
                        /\ AllFetched(c)
                        /\ ~AloneResult(c).threw
                        /\ returned[c].value =
                               Some(getFormattedPointsResult(AloneResult(c).points))
                  /\ returned[c].state = "rejected" =>
                        (FetchFailed(c) \/ AloneResult(c).threw)

\* The same isolation, without the condition on overlapping: it holds of one
\* invocation, so its failure is due to the second invocation.
IsolationOfOneInvocation ==
    \A c \in Calls :
        (Started(c) /\ args[c][1].hasCoordinates) =>
            /\ \A i \in DOMAIN requiredTilesObjects :
                  requiredTilesObjects[i].tileData # Null =>
                      requiredTilesObjects[i].tileData =
                          Some(TerrainGrid(requiredTilesObjects[i].coordinates))
            /\ \A i \in DOMAIN obs[c].wrote :
                  obs[c].wrote[i] # Null => obs[c].wrote[i][1] = [slot |-> i, run |-> c]
            /\ returned[c].state = "resolved" =>
                  /\ AllFetched(c)
                  /\ ~AloneResult(c).threw
                  /\ returned[c].value = Some(getFormattedPointsResult(AloneResult(c).points))
            /\ returned[c].state = "rejected" =>
                  (FetchFailed(c) \/ AloneResult(c).threw)

=============================================================================
